---- MODULE Spec2Model ----
(***************************************************************************)
(* Registration / OTP verification flow of the storefront mockup           *)
(* (src/unnamed/part_000, the variant with the apple_signin dialog).       *)
(*                                                                         *)
(* The React state of App() is the state of the model; every event         *)
(* handler, the countdown timer callback and every continuation of a       *)
(* simulated asynchronous call is one action.  Strings that the code       *)
(* inspects character by character (the phone number, an OTP input) are    *)
(* sequences of one-character strings; strings the code only tests for     *)
(* emptiness are TLA+ strings.                                             *)
(*                                                                         *)
(* A render and the effect clean-up that follows a state update are taken  *)
(* to be part of the step that made the update: the interval of the        *)
(* countdown effect exists exactly while its condition holds.              *)
(***************************************************************************)
EXTENDS Integers, Sequences, FiniteSets, TLC

VARIABLES
  currentScreen,      \* useState<Screen>('landing')
  profile,            \* useState({email, salutation, firstName, surname, phone, ...})
  verificationCode,   \* useState(['', '', '', '', '', '']), indexed 0..5
  isVerifying,        \* useState(false)
  verificationError,  \* useState('')
  countdown,          \* useState(60)
  canResend,          \* useState(false)
  phoneError,         \* useState('')
  isViaSocialAuth,    \* useState(false)
  isEmailVerified,    \* useState(false)
  pendingVerify,      \* handleVerify continuations waiting on the 1500ms timeout
  pendingResend,      \* handleResendCode continuations waiting on the 1000ms timeout
  pendingEmail,       \* handleEmailVerification continuations waiting on 1000ms
  ticksOnVisit,       \* history: timer ticks since the screen last became verify
  fnInput,            \* the argument of a pure function being evaluated (PureSpec only)
  fnOutput,           \* <<name of the function, its result>>, or <<>> before a call
  focus,              \* index of the OTP input holding the focus, or NoFocus
  ticksSinceReset     \* history: timer ticks since the countdown was last set to 60

vars == <<currentScreen, profile, verificationCode, isVerifying, verificationError,
          countdown, canResend, phoneError, isViaSocialAuth, isEmailVerified,
          pendingVerify, pendingResend, pendingEmail, ticksOnVisit, fnInput, fnOutput,
          focus, ticksSinceReset>>

\* the variables of the pure-function evaluation, which the program never touches
calc == <<fnInput, fnOutput>>

-----------------------------------------------------------------------------
(* Constants of the program *)

Screens == {"landing", "registration_form", "verify", "success", "apple_signin"}

Salutations == {"Mr", "Mrs", "Miss"}

NumSlots == 6

\* document.activeElement is none of the OTP inputs
NoFocus == -1

CountdownStart == 60

Digits == {"0", "1", "2", "3", "4", "5", "6", "7", "8", "9"}

OTPLengthError == "Please enter a valid 6-digit code"

OTPInvalidError == "Invalid verification code. Please try again."

PhoneErrorMessage == "Please enter a valid UAE mobile number (05X XXX XXXX)"

MockSocialAuthData == [email |-> "user@example.com", firstName |-> "John", lastName |-> "Doe"]

EmptyProfile ==
  [email |-> "", salutation |-> "", firstName |-> "", surname |-> "",
   phone |-> <<>>, birthday |-> "", favoriteDesigners |-> ""]

EmptyCode == [i \in 0..(NumSlots - 1) |-> <<>>]

-----------------------------------------------------------------------------
(* Bounds of the model and the inputs the environment draws from *)

MaxPending == 1

EmailInputs == {"", "a@b.com"}

NameInputs == {"A"}

SurnameInputs == {"B"}

SalutationInputs == {"Mr"}

BirthdayInputs == {"1990-01-01"}

PhoneInputs ==
  { <<>>,
    <<"0","5","2","2","2","3","3","4","4">>,
    <<"0","5","2","2","2">>,
    <<"0","6","2","2","2","3","3","4","4">>,
    <<"+","0","5"," ","2","2","2","-","3","3","4","4","9">> }

CarefulPhoneInputs == { <<"0","5","2","2","2","3","3","4","4">> }

\* what a key press can put into an OTP input: nothing, a digit, another character
OTPKeyInputs == { <<>>, <<"1">>, <<"a">> }

\* the longest argument given to a pure function, and the characters it is made of
MaxLen == 10

Alphabet == {"0", "5", " "}

Strings == UNION { [1..n -> Alphabet] : n \in 0..MaxLen }

OTPInputs == { <<>>, <<"1">>, <<"1","2">> }

-----------------------------------------------------------------------------
(* Pure functions *)

RECURSIVE StripNonDigits(_)
StripNonDigits(s) ==
  IF s = <<>> THEN <<>>
  ELSE IF Head(s) \in Digits THEN <<Head(s)>> \o StripNonDigits(Tail(s))
       ELSE StripNonDigits(Tail(s))

\* String.prototype.slice(a, b) for 0 <= a, 0 <= b (0-based, end exclusive)
Slice(s, a, b) ==
  LET lo == IF a > Len(s) THEN Len(s) ELSE a
      hi == IF b > Len(s) THEN Len(s) ELSE b
  IN  IF hi <= lo THEN <<>> ELSE SubSeq(s, lo + 1, hi)

\* mutant: the last group is not cut at the ninth digit
formatPhoneNumber_Uncut(value) ==
  LET numbers == StripNonDigits(value) IN
  IF Len(numbers) <= 2 THEN numbers
  ELSE IF Len(numbers) <= 5
       THEN Slice(numbers, 0, 2) \o <<" ">> \o Slice(numbers, 2, Len(numbers))
  ELSE Slice(numbers, 0, 2) \o <<" ">> \o Slice(numbers, 2, 5) \o <<" ">>
       \o Slice(numbers, 5, Len(numbers))

\* mutant: the separators of the input are not removed before grouping
formatPhoneNumber_Unstripped(value) ==
  LET numbers == value IN
  IF Len(numbers) <= 2 THEN numbers
  ELSE IF Len(numbers) <= 5
       THEN Slice(numbers, 0, 2) \o <<" ">> \o Slice(numbers, 2, Len(numbers))
  ELSE IF Len(numbers) <= 8
       THEN Slice(numbers, 0, 2) \o <<" ">> \o Slice(numbers, 2, 5) \o <<" ">>
            \o Slice(numbers, 5, Len(numbers))
  ELSE Slice(numbers, 0, 2) \o <<" ">> \o Slice(numbers, 2, 5) \o <<" ">>
       \o Slice(numbers, 5, 9)

formatPhoneNumber(value) ==
  LET numbers == StripNonDigits(value) IN
  IF Len(numbers) <= 2 THEN numbers
  ELSE IF Len(numbers) <= 5
       THEN Slice(numbers, 0, 2) \o <<" ">> \o Slice(numbers, 2, Len(numbers))
  ELSE IF Len(numbers) <= 8
       THEN Slice(numbers, 0, 2) \o <<" ">> \o Slice(numbers, 2, 5) \o <<" ">>
            \o Slice(numbers, 5, Len(numbers))
  ELSE Slice(numbers, 0, 2) \o <<" ">> \o Slice(numbers, 2, 5) \o <<" ">>
       \o Slice(numbers, 5, 9)

\* mutant: the prefix test dropped
validateUAEPhone_AnyPrefix(phone) ==
  Len(StripNonDigits(phone)) = 9

\* mutant: any number of at least 9 digits passes
validateUAEPhone_AtLeastNine(phone) ==
  LET numbers == StripNonDigits(phone) IN
  /\ Len(numbers) >= 9
  /\ Slice(numbers, 0, 2) = <<"0", "5">>

validateUAEPhone(phone) ==
  LET numbers == StripNonDigits(phone) IN
  /\ Len(numbers) = 9
  /\ Slice(numbers, 0, 2) = <<"0", "5">>

\* mutant: the separators of the stored phone are not stripped before slicing
formatPhoneForDisplay_Unstripped(phone) ==
  LET numbers == phone IN
  <<"+", "9", "7", "1", " ">> \o Slice(numbers, 0, 2) \o <<" ">>
    \o Slice(numbers, 2, 5) \o <<" ">> \o Slice(numbers, 5, 9)

formatPhoneForDisplay(phone) ==
  LET numbers == StripNonDigits(phone) IN
  <<"+", "9", "7", "1", " ">> \o Slice(numbers, 0, 2) \o <<" ">>
    \o Slice(numbers, 2, 5) \o <<" ">> \o Slice(numbers, 5, 9)

RECURSIVE JoinFrom(_, _)
JoinFrom(code, i) ==
  IF i >= NumSlots THEN <<>> ELSE code[i] \o JoinFrom(code, i + 1)

\* verificationCode.join('')
Join(code) == JoinFrom(code, 0)

\* mutant: no clamp at zero
CountdownUpdater_Unclamped(prev) == prev - 1

\* mutant: two intervals alive at once, each applying the updater
CountdownUpdater_Twice(prev) == IF prev <= 2 THEN 0 ELSE prev - 2

\* the state updater passed to setCountdown by the interval callback
CountdownUpdater(prev) == IF prev <= 1 THEN 0 ELSE prev - 1

\* the outcomes of `await new Promise(resolve => setTimeout(resolve, ...))`:
\* the promise is only ever resolved, so the await never throws
SimulatedCallRejects == {FALSE}

-----------------------------------------------------------------------------
Init ==
  /\ currentScreen = "landing"
  /\ profile = EmptyProfile
  /\ verificationCode = EmptyCode
  /\ isVerifying = FALSE
  /\ verificationError = ""
  /\ countdown = CountdownStart
  /\ canResend = FALSE
  /\ phoneError = ""
  /\ isViaSocialAuth = FALSE
  /\ isEmailVerified = FALSE
  /\ pendingVerify = 0
  /\ pendingResend = 0
  /\ pendingEmail = 0
  /\ ticksOnVisit = 0
  /\ fnInput = <<>>
  /\ fnOutput = <<>>
  /\ focus = NoFocus
  /\ ticksSinceReset = 0

\* setCurrentScreen(s), with the history of the visit to verify; the OTP inputs
\* are mounted without focus and unmounted with the verify screen
GoTo(s) ==
  /\ currentScreen' = s
  /\ ticksOnVisit' = IF s = "verify" /\ currentScreen = "verify" THEN ticksOnVisit ELSE 0
  /\ focus' = IF s = currentScreen THEN focus ELSE NoFocus
  /\ UNCHANGED <<calc, ticksSinceReset>>

otherThanScreen ==
  <<profile, verificationCode, isVerifying, verificationError, countdown, canResend,
    phoneError, isViaSocialAuth, isEmailVerified, pendingVerify, pendingResend,
    pendingEmail>>

-----------------------------------------------------------------------------
(* Countdown timer effect *)

\* mutant: the interval is not tied to the verify screen
Tick_OnAnyScreen ==
  /\ countdown > 0
  /\ countdown' = CountdownUpdater(countdown)
  /\ canResend' = IF countdown <= 1 THEN TRUE ELSE canResend
  /\ ticksOnVisit' = IF currentScreen # "verify" THEN 0
                     ELSE IF ticksOnVisit <= CountdownStart THEN ticksOnVisit + 1
                     ELSE ticksOnVisit
  /\ ticksSinceReset' = ticksSinceReset + 1
  /\ UNCHANGED <<currentScreen, profile, verificationCode, isVerifying, verificationError,
                 phoneError, isViaSocialAuth, isEmailVerified, pendingVerify,
                 pendingResend, pendingEmail, calc, focus>>

\* mutant: the last tick does not enable the resend
Tick_ForgetsCanResend ==
  /\ currentScreen = "verify"
  /\ countdown > 0
  /\ countdown' = CountdownUpdater(countdown)
  /\ ticksOnVisit' = IF ticksOnVisit <= CountdownStart THEN ticksOnVisit + 1 ELSE ticksOnVisit
  /\ ticksSinceReset' = ticksSinceReset + 1
  /\ UNCHANGED <<currentScreen, profile, verificationCode, isVerifying, verificationError,
                 canResend, phoneError, isViaSocialAuth, isEmailVerified, pendingVerify,
                 pendingResend, pendingEmail, calc, focus>>

Tick ==
  /\ currentScreen = "verify"
  /\ countdown > 0
  /\ countdown' = CountdownUpdater(countdown)
  /\ canResend' = IF countdown <= 1 THEN TRUE ELSE canResend
  /\ ticksOnVisit' = IF ticksOnVisit <= CountdownStart THEN ticksOnVisit + 1 ELSE ticksOnVisit
  /\ ticksSinceReset' = ticksSinceReset + 1
  /\ UNCHANGED <<currentScreen, profile, verificationCode, isVerifying, verificationError,
                 phoneError, isViaSocialAuth, isEmailVerified, pendingVerify,
                 pendingResend, pendingEmail, calc, focus>>

-----------------------------------------------------------------------------
(* Handlers *)

\* mutant: the input is stored without truncation
handleOTPChange_Untruncated(index, value) ==
  /\ currentScreen = "verify"
  /\ verificationCode' = [verificationCode EXCEPT ![index] = value]
  /\ verificationError' = ""
  /\ focus' = IF value # <<>> /\ index < 5 THEN index + 1 ELSE index
  /\ UNCHANGED <<currentScreen, profile, isVerifying, countdown, canResend, phoneError,
                 isViaSocialAuth, isEmailVerified, pendingVerify, pendingResend,
                 pendingEmail, ticksOnVisit, calc, ticksSinceReset>>

\* mutant: the edit leaves the error message in place
handleOTPChange_KeepsError(index, value) ==
  LET v == IF Len(value) > 1 THEN <<value[1]>> ELSE value IN
  /\ currentScreen = "verify"
  /\ verificationCode' = [verificationCode EXCEPT ![index] = v]
  /\ focus' = IF v # <<>> /\ index < 5 THEN index + 1 ELSE index
  /\ UNCHANGED <<currentScreen, profile, isVerifying, verificationError, countdown,
                 canResend, phoneError, isViaSocialAuth, isEmailVerified, pendingVerify,
                 pendingResend, pendingEmail, ticksOnVisit, calc, ticksSinceReset>>

\* mutant: no auto-advance of the focus
handleOTPChange_NoAdvance(index, value) ==
  LET v == IF Len(value) > 1 THEN <<value[1]>> ELSE value IN
  /\ currentScreen = "verify"
  /\ verificationCode' = [verificationCode EXCEPT ![index] = v]
  /\ verificationError' = ""
  /\ focus' = index
  /\ UNCHANGED <<currentScreen, profile, isVerifying, countdown, canResend, phoneError,
                 isViaSocialAuth, isEmailVerified, pendingVerify, pendingResend,
                 pendingEmail, ticksOnVisit, calc, ticksSinceReset>>

\* onChange of the OTP input at index, which is the input holding the focus
handleOTPChange(index, value) ==
  LET v == IF Len(value) > 1 THEN <<value[1]>> ELSE value IN
  /\ currentScreen = "verify"
  /\ verificationCode' = [verificationCode EXCEPT ![index] = v]
  /\ verificationError' = ""
  /\ focus' = IF v # <<>> /\ index < 5 THEN index + 1 ELSE index
  /\ UNCHANGED <<currentScreen, profile, isVerifying, countdown, canResend, phoneError,
                 isViaSocialAuth, isEmailVerified, pendingVerify, pendingResend,
                 pendingEmail, ticksOnVisit, calc, ticksSinceReset>>

\* onKeyDown of the OTP input at index, which is the input holding the focus
OTPKeyDown(index, key) ==
  /\ currentScreen = "verify"
  /\ focus' = IF key = "Backspace" /\ verificationCode[index] = <<>> /\ index > 0
              THEN index - 1 ELSE index
  /\ UNCHANGED <<currentScreen, profile, verificationCode, isVerifying, verificationError,
                 countdown, canResend, phoneError, isViaSocialAuth, isEmailVerified,
                 pendingVerify, pendingResend, pendingEmail, ticksOnVisit, calc, ticksSinceReset>>

\* mutant: the length test dropped
handleVerify_NoLengthCheck ==
  /\ currentScreen = "verify"
  /\ ~isVerifying
  /\ isVerifying' = TRUE
  /\ pendingVerify' = pendingVerify + 1
  /\ UNCHANGED <<currentScreen, profile, verificationCode, verificationError, countdown,
                 canResend, phoneError, isViaSocialAuth, isEmailVerified, pendingResend,
                 pendingEmail, ticksOnVisit, calc, ticksSinceReset, focus>>

\* mutant: the button is not disabled while a submission is pending
handleVerify_NotDisabled ==
  /\ currentScreen = "verify"
  /\ IF Len(Join(verificationCode)) # 6
     THEN /\ verificationError' = OTPLengthError
          /\ UNCHANGED <<isVerifying, pendingVerify>>
     ELSE /\ isVerifying' = TRUE
          /\ pendingVerify' = pendingVerify + 1
          /\ UNCHANGED verificationError
  /\ UNCHANGED <<currentScreen, profile, verificationCode, countdown, canResend,
                 phoneError, isViaSocialAuth, isEmailVerified, pendingResend,
                 pendingEmail, ticksOnVisit, calc, ticksSinceReset, focus>>

handleVerify ==
  /\ currentScreen = "verify"
  /\ ~isVerifying
  /\ IF Len(Join(verificationCode)) # 6
     THEN /\ verificationError' = OTPLengthError
          /\ UNCHANGED <<isVerifying, pendingVerify>>
     ELSE /\ isVerifying' = TRUE
          /\ pendingVerify' = pendingVerify + 1
          /\ UNCHANGED verificationError
  /\ UNCHANGED <<currentScreen, profile, verificationCode, countdown, canResend,
                 phoneError, isViaSocialAuth, isEmailVerified, pendingResend,
                 pendingEmail, ticksOnVisit, calc, ticksSinceReset, focus>>

\* mutant: the awaited call can fail, and the catch branch runs
VerifyComplete_MayReject ==
  /\ pendingVerify > 0
  /\ pendingVerify' = pendingVerify - 1
  /\ \E rejected \in BOOLEAN :
       IF rejected
       THEN /\ verificationError' = OTPInvalidError
            /\ UNCHANGED <<currentScreen, ticksOnVisit, calc, ticksSinceReset, focus>>
       ELSE /\ GoTo("success")
            /\ UNCHANGED verificationError
  /\ isVerifying' = FALSE
  /\ UNCHANGED <<profile, verificationCode, countdown, canResend, phoneError,
                 isViaSocialAuth, isEmailVerified, pendingResend, pendingEmail>>

\* the continuation of handleVerify after the await: try / catch / finally
VerifyComplete ==
  /\ pendingVerify > 0
  /\ pendingVerify' = pendingVerify - 1
  /\ \E rejected \in SimulatedCallRejects :
       IF rejected
       THEN /\ verificationError' = OTPInvalidError
            /\ UNCHANGED <<currentScreen, ticksOnVisit, calc, ticksSinceReset, focus>>
       ELSE /\ GoTo("success")
            /\ UNCHANGED verificationError
  /\ isVerifying' = FALSE
  /\ UNCHANGED <<profile, verificationCode, countdown, canResend, phoneError,
                 isViaSocialAuth, isEmailVerified, pendingResend, pendingEmail>>

\* mutant: the countdown is reset only after the awaited call
handleResendCode_ResetAfterAwait ==
  /\ currentScreen = "verify"
  /\ ~(countdown > 0)
  /\ pendingResend < MaxPending
  /\ pendingResend' = pendingResend + 1
  /\ UNCHANGED <<currentScreen, profile, verificationCode, isVerifying, verificationError,
                 countdown, canResend, phoneError, isViaSocialAuth, isEmailVerified,
                 pendingVerify, pendingEmail, ticksOnVisit, calc, ticksSinceReset, focus>>

\* mutant: the resend button is shown whatever the countdown
handleResendCode_AlwaysShown ==
  /\ currentScreen = "verify"
  /\ pendingResend < MaxPending
  /\ canResend' = FALSE
  /\ countdown' = CountdownStart
  /\ pendingResend' = pendingResend + 1
  /\ ticksSinceReset' = 0
  /\ UNCHANGED <<currentScreen, profile, verificationCode, isVerifying, verificationError,
                 phoneError, isViaSocialAuth, isEmailVerified, pendingVerify,
                 pendingEmail, ticksOnVisit, calc, focus>>

handleResendCode ==
  /\ currentScreen = "verify"
  /\ ~(countdown > 0)
  /\ pendingResend < MaxPending
  /\ canResend' = FALSE
  /\ countdown' = CountdownStart
  /\ pendingResend' = pendingResend + 1
  /\ ticksSinceReset' = 0
  /\ UNCHANGED <<currentScreen, profile, verificationCode, isVerifying, verificationError,
                 phoneError, isViaSocialAuth, isEmailVerified, pendingVerify,
                 pendingEmail, ticksOnVisit, calc, focus>>

\* the continuation of handleResendCode after the await: nothing follows it
ResendComplete ==
  /\ pendingResend > 0
  /\ pendingResend' = pendingResend - 1
  /\ UNCHANGED <<currentScreen, profile, verificationCode, isVerifying, verificationError,
                 countdown, canResend, phoneError, isViaSocialAuth, isEmailVerified,
                 pendingVerify, pendingEmail, ticksOnVisit, calc, ticksSinceReset, focus>>

\* mutant: a rejected phone is cleared and reported inline
handleVerification_ClearsOnFail ==
  /\ currentScreen = "registration_form"
  /\ IF \/ profile.salutation = "" \/ profile.firstName = ""
        \/ profile.surname = "" \/ profile.phone = <<>>
     THEN UNCHANGED <<currentScreen, ticksOnVisit, calc, ticksSinceReset, focus, profile, phoneError>>
     ELSE IF ~validateUAEPhone(profile.phone)
          THEN /\ profile' = [profile EXCEPT !.phone = <<>>]
               /\ phoneError' = PhoneErrorMessage
               /\ UNCHANGED <<currentScreen, ticksOnVisit, calc, ticksSinceReset, focus>>
          ELSE GoTo("verify") /\ UNCHANGED <<profile, phoneError>>
  /\ UNCHANGED <<verificationCode, isVerifying, verificationError, countdown, canResend,
                 isViaSocialAuth, isEmailVerified, pendingVerify, pendingResend,
                 pendingEmail>>

\* mutant: the phone is only required to be non-empty
handleVerification_NoPhoneCheck ==
  /\ currentScreen = "registration_form"
  /\ IF \/ profile.salutation = "" \/ profile.firstName = ""
        \/ profile.surname = "" \/ profile.phone = <<>>
     THEN UNCHANGED <<currentScreen, ticksOnVisit, calc, ticksSinceReset, focus>>
     ELSE GoTo("verify")
  /\ UNCHANGED otherThanScreen

\* the two alert() calls block until dismissed and leave no state behind
handleVerification ==
  /\ currentScreen = "registration_form"
  /\ IF \/ profile.salutation = "" \/ profile.firstName = ""
        \/ profile.surname = "" \/ profile.phone = <<>>
     THEN UNCHANGED <<currentScreen, ticksOnVisit, calc, ticksSinceReset, focus>>
     ELSE IF ~validateUAEPhone(profile.phone)
          THEN UNCHANGED <<currentScreen, ticksOnVisit, calc, ticksSinceReset, focus>>
          ELSE GoTo("verify")
  /\ UNCHANGED otherThanScreen

handleProfileChange(field, value) ==
  /\ profile' = [profile EXCEPT ![field] = value]
  /\ UNCHANGED <<currentScreen, verificationCode, isVerifying, verificationError,
                 countdown, canResend, phoneError, isViaSocialAuth, isEmailVerified,
                 pendingVerify, pendingResend, pendingEmail, ticksOnVisit, calc, ticksSinceReset, focus>>

\* mutant: the value of the input is stored as typed
handlePhoneChange_Raw(value) ==
  LET formattedPhone == formatPhoneNumber(value) IN
  /\ currentScreen \in {"registration_form", "success"}
  /\ profile' = [profile EXCEPT !.phone = value]
  /\ phoneError' = IF formattedPhone = <<>> THEN ""
                   ELSE IF ~validateUAEPhone(formattedPhone) THEN PhoneErrorMessage
                   ELSE ""
  /\ UNCHANGED <<currentScreen, verificationCode, isVerifying, verificationError,
                 countdown, canResend, isViaSocialAuth, isEmailVerified,
                 pendingVerify, pendingResend, pendingEmail, ticksOnVisit, calc, ticksSinceReset, focus>>

\* mutant: the error is computed from the phone stored before the edit
handlePhoneChange_StaleError(value) ==
  LET formattedPhone == formatPhoneNumber(value) IN
  /\ currentScreen \in {"registration_form", "success"}
  /\ profile' = [profile EXCEPT !.phone = formattedPhone]
  /\ phoneError' = IF profile.phone = <<>> THEN ""
                   ELSE IF ~validateUAEPhone(profile.phone) THEN PhoneErrorMessage
                   ELSE ""
  /\ UNCHANGED <<currentScreen, verificationCode, isVerifying, verificationError,
                 countdown, canResend, isViaSocialAuth, isEmailVerified,
                 pendingVerify, pendingResend, pendingEmail, ticksOnVisit, calc, ticksSinceReset, focus>>

handlePhoneChange(value) ==
  LET formattedPhone == formatPhoneNumber(value) IN
  /\ currentScreen \in {"registration_form", "success"}
  /\ profile' = [profile EXCEPT !.phone = formattedPhone]
  /\ phoneError' = IF formattedPhone = <<>> THEN ""
                   ELSE IF ~validateUAEPhone(formattedPhone) THEN PhoneErrorMessage
                   ELSE ""
  /\ UNCHANGED <<currentScreen, verificationCode, isVerifying, verificationError,
                 countdown, canResend, isViaSocialAuth, isEmailVerified,
                 pendingVerify, pendingResend, pendingEmail, ticksOnVisit, calc, ticksSinceReset, focus>>

\* the "retry" button of the registration form and of the success screen
handleEmailVerification ==
  /\ currentScreen \in {"registration_form", "success"}
  /\ ~isEmailVerified /\ ~isViaSocialAuth
  /\ pendingEmail < MaxPending
  /\ pendingEmail' = pendingEmail + 1
  /\ UNCHANGED <<currentScreen, profile, verificationCode, isVerifying, verificationError,
                 countdown, canResend, phoneError, isViaSocialAuth, isEmailVerified,
                 pendingVerify, pendingResend, ticksOnVisit, calc, ticksSinceReset, focus>>

\* mutant: the continuation does not mark the email verified
EmailVerificationComplete_Dropped ==
  /\ pendingEmail > 0
  /\ pendingEmail' = pendingEmail - 1
  /\ UNCHANGED <<currentScreen, profile, verificationCode, isVerifying, verificationError,
                 countdown, canResend, phoneError, isViaSocialAuth, isEmailVerified,
                 pendingVerify, pendingResend, ticksOnVisit, calc, ticksSinceReset, focus>>

EmailVerificationComplete ==
  /\ pendingEmail > 0
  /\ pendingEmail' = pendingEmail - 1
  /\ isEmailVerified' = TRUE
  /\ UNCHANGED <<currentScreen, profile, verificationCode, isVerifying, verificationError,
                 countdown, canResend, phoneError, isViaSocialAuth,
                 pendingVerify, pendingResend, ticksOnVisit, calc, ticksSinceReset, focus>>

\* mutant: the email is not marked verified by the sign-in
handleSocialAuth_NotVerified(provider) ==
  /\ \/ provider = "google" /\ currentScreen = "landing"
     \/ provider = "apple" /\ currentScreen = "apple_signin"
  /\ profile' = [profile EXCEPT !.email = MockSocialAuthData.email,
                                !.firstName = MockSocialAuthData.firstName,
                                !.surname = MockSocialAuthData.lastName,
                                !.salutation = "",
                                !.phone = <<>>,
                                !.birthday = "",
                                !.favoriteDesigners = ""]
  /\ isViaSocialAuth' = TRUE
  /\ GoTo("success")
  /\ UNCHANGED <<verificationCode, isVerifying, verificationError, countdown, canResend,
                 phoneError, isEmailVerified, pendingVerify, pendingResend, pendingEmail>>

handleSocialAuth(provider) ==
  /\ \/ provider = "google" /\ currentScreen = "landing"
     \/ provider = "apple" /\ currentScreen = "apple_signin"
  /\ profile' = [profile EXCEPT !.email = MockSocialAuthData.email,
                                !.firstName = MockSocialAuthData.firstName,
                                !.surname = MockSocialAuthData.lastName,
                                !.salutation = "",
                                !.phone = <<>>,
                                !.birthday = "",
                                !.favoriteDesigners = ""]
  /\ isEmailVerified' = TRUE
  /\ isViaSocialAuth' = TRUE
  /\ GoTo("success")
  /\ UNCHANGED <<verificationCode, isVerifying, verificationError, countdown, canResend,
                 phoneError, pendingVerify, pendingResend, pendingEmail>>

-----------------------------------------------------------------------------
(* Inline handlers of the screens *)

LandingContinueWithApple ==
  /\ currentScreen = "landing"
  /\ GoTo("apple_signin")
  /\ UNCHANGED otherThanScreen

LandingEmailInput ==
  /\ currentScreen = "landing"
  /\ \E value \in EmailInputs : handleProfileChange("email", value)

\* mutant: the email is not required
LandingContinue_Unguarded ==
  /\ currentScreen = "landing"
  /\ GoTo("registration_form")
  /\ UNCHANGED otherThanScreen

LandingContinue ==
  /\ currentScreen = "landing"
  /\ IF profile.email # "" THEN GoTo("registration_form")
                           ELSE UNCHANGED <<currentScreen, ticksOnVisit, calc, ticksSinceReset, focus>>
  /\ UNCHANGED otherThanScreen

AppleSignInClose ==
  /\ currentScreen = "apple_signin"
  /\ GoTo("landing")
  /\ UNCHANGED otherThanScreen

SocialAuth == \E provider \in {"apple", "google"} : handleSocialAuth(provider)

RegistrationInput ==
  /\ currentScreen = "registration_form"
  /\ \/ \E value \in SalutationInputs : handleProfileChange("salutation", value)
     \/ /\ ~isViaSocialAuth
        /\ \/ \E value \in NameInputs : handleProfileChange("firstName", value)
           \/ \E value \in SurnameInputs : handleProfileChange("surname", value)

PhoneInput == \E value \in PhoneInputs : handlePhoneChange(value)

\* the phone typed by a user who enters a well-formed UAE mobile number
PhoneTyping == \E value \in CarefulPhoneInputs : handlePhoneChange(value)

\* mutant: the profile is not reset
UseDifferentMethod_KeepsProfile ==
  /\ currentScreen = "registration_form"
  /\ isViaSocialAuth' = FALSE
  /\ GoTo("landing")
  /\ UNCHANGED <<profile, verificationCode, isVerifying, verificationError, countdown,
                 canResend, phoneError, isEmailVerified, pendingVerify, pendingResend,
                 pendingEmail>>

\* mutant: the email survives the reset
UseDifferentMethod_KeepsEmail ==
  /\ currentScreen = "registration_form"
  /\ profile' = [EmptyProfile EXCEPT !.email = profile.email]
  /\ isViaSocialAuth' = FALSE
  /\ GoTo("landing")
  /\ UNCHANGED <<verificationCode, isVerifying, verificationError, countdown, canResend,
                 phoneError, isEmailVerified, pendingVerify, pendingResend, pendingEmail>>

UseDifferentMethod ==
  /\ currentScreen = "registration_form"
  /\ profile' = EmptyProfile
  /\ isViaSocialAuth' = FALSE
  /\ GoTo("landing")
  /\ UNCHANGED <<verificationCode, isVerifying, verificationError, countdown, canResend,
                 phoneError, isEmailVerified, pendingVerify, pendingResend, pendingEmail>>

\* an OTP input event on any slot, in any order
OTPInput ==
  \E index \in 0..(NumSlots - 1), value \in OTPInputs : handleOTPChange(index, value)

Filled(code) == {i \in 0..(NumSlots - 1) : code[i] # <<>>}

\* the OTP typed left to right, as the auto-advance of the focus leads the user,
\* and deleted right to left: the slots filled are always 0..k-1
OTPTyping ==
  \E index \in 0..(NumSlots - 1), value \in OTPInputs :
    /\ Filled(verificationCode) = 0..(Cardinality(Filled(verificationCode)) - 1)
    /\ IF value = <<>> THEN index = Cardinality(Filled(verificationCode)) - 1
                       ELSE index = Cardinality(Filled(verificationCode))
    /\ handleOTPChange(index, value)

\* mutant: leaving the screen cancels the pending submission
VerifyBack_Cancels ==
  /\ currentScreen = "verify"
  /\ GoTo("registration_form")
  /\ pendingVerify' = 0
  /\ isVerifying' = FALSE
  /\ UNCHANGED <<profile, verificationCode, verificationError, countdown, canResend,
                 phoneError, isViaSocialAuth, isEmailVerified, pendingResend, pendingEmail>>

\* mutant: going back resets the form
VerifyBack_ResetsProfile ==
  /\ currentScreen = "verify"
  /\ GoTo("registration_form")
  /\ profile' = EmptyProfile
  /\ phoneError' = ""
  /\ UNCHANGED <<verificationCode, isVerifying, verificationError, countdown, canResend,
                 isViaSocialAuth, isEmailVerified, pendingVerify, pendingResend,
                 pendingEmail>>

\* the close button and the Edit button of the verify screen
VerifyBack ==
  /\ currentScreen = "verify"
  /\ GoTo("registration_form")
  /\ UNCHANGED otherThanScreen

\* mutant: a link of the success screen leads back to landing
SuccessInput_WithExit ==
  /\ currentScreen = "success"
  /\ \/ \E value \in SalutationInputs : handleProfileChange("salutation", value)
     \/ \E value \in NameInputs : handleProfileChange("firstName", value)
     \/ \E value \in SurnameInputs : handleProfileChange("surname", value)
     \/ \E value \in BirthdayInputs : handleProfileChange("birthday", value)
     \/ GoTo("landing") /\ UNCHANGED otherThanScreen

SuccessInput ==
  /\ currentScreen = "success"
  /\ \/ \E value \in SalutationInputs : handleProfileChange("salutation", value)
     \/ \E value \in NameInputs : handleProfileChange("firstName", value)
     \/ \E value \in SurnameInputs : handleProfileChange("surname", value)
     \/ \E value \in BirthdayInputs : handleProfileChange("birthday", value)

\* the OTP typed left to right with any key of the keyboard: the inputs are
\* type="text" and handleOTPChange takes the value as it comes
OTPKeying ==
  \E index \in 0..(NumSlots - 1), value \in OTPKeyInputs :
    /\ Filled(verificationCode) = 0..(Cardinality(Filled(verificationCode)) - 1)
    /\ IF value = <<>> THEN index = Cardinality(Filled(verificationCode)) - 1
                       ELSE index = Cardinality(Filled(verificationCode))
    /\ handleOTPChange(index, value)

Next ==
  \/ Tick
  \/ LandingContinueWithApple
  \/ LandingEmailInput
  \/ LandingContinue
  \/ AppleSignInClose
  \/ SocialAuth
  \/ RegistrationInput
  \/ PhoneTyping
  \/ handleVerification
  \/ UseDifferentMethod
  \/ handleEmailVerification
  \/ EmailVerificationComplete
  \/ OTPTyping
  \/ handleVerify
  \/ VerifyComplete
  \/ handleResendCode
  \/ ResendComplete
  \/ VerifyBack
  \/ SuccessInput

Spec == Init /\ [][Next]_vars

\* The same program with the OTP slots edited in any order, in the behaviours
\* where the user is done before the countdown's first tick.
NextKeyed ==
  \/ LandingContinueWithApple
  \/ LandingEmailInput
  \/ LandingContinue
  \/ AppleSignInClose
  \/ SocialAuth
  \/ RegistrationInput
  \/ PhoneInput
  \/ handleVerification
  \/ UseDifferentMethod
  \/ handleEmailVerification
  \/ EmailVerificationComplete
  \/ OTPInput
  \/ handleVerify
  \/ VerifyComplete
  \/ VerifyBack
  \/ SuccessInput

SpecKeyed == Init /\ [][NextKeyed]_vars

\* The same program with the OTP typed from the whole keyboard, before the
\* countdown's first tick.
NextTyped ==
  \/ LandingContinueWithApple
  \/ LandingEmailInput
  \/ LandingContinue
  \/ AppleSignInClose
  \/ SocialAuth
  \/ RegistrationInput
  \/ PhoneTyping
  \/ handleVerification
  \/ UseDifferentMethod
  \/ handleEmailVerification
  \/ EmailVerificationComplete
  \/ OTPKeying
  \/ handleVerify
  \/ VerifyComplete
  \/ VerifyBack
  \/ SuccessInput

SpecTyped == Init /\ [][NextTyped]_vars

\* A timeout that was set does fire: the continuation of a pending handleVerify runs.
FairSpecKeyed == SpecKeyed /\ WF_vars(VerifyComplete)

\* the code the user received, typed into the slots in order
CodeToType == <<"1", "2", "3", "4", "5", "6">>

\* the OTP typed left to right, slot i receiving the i-th digit of the code,
\* and deleted right to left
OTPTypingCode ==
  \E index \in 0..(NumSlots - 1) : \E value \in {<<>>, <<CodeToType[index + 1]>>} :
    /\ Filled(verificationCode) = 0..(Cardinality(Filled(verificationCode)) - 1)
    /\ IF value = <<>> THEN index = Cardinality(Filled(verificationCode)) - 1
                       ELSE index = Cardinality(Filled(verificationCode))
    /\ handleOTPChange(index, value)

\* The email path: a user who registers with an email, types the code received
\* and is done before the countdown's first tick.
NextEmailPath ==
  \/ LandingEmailInput
  \/ LandingContinue
  \/ RegistrationInput
  \/ PhoneInput
  \/ handleVerification
  \/ UseDifferentMethod
  \/ handleEmailVerification
  \/ EmailVerificationComplete
  \/ OTPTypingCode
  \/ handleVerify
  \/ VerifyComplete
  \/ VerifyBack
  \/ SuccessInput

SpecEmailPath == Init /\ [][NextEmailPath]_vars

\* A timeout that was set does fire: the continuation of a pending
\* handleEmailVerification runs.
FairSpecEmailPath == SpecEmailPath /\ WF_vars(EmailVerificationComplete)

\* the user clicks into the first box of an empty code
FocusFirstSlot ==
  /\ currentScreen = "verify"
  /\ focus = NoFocus
  /\ verificationCode = EmptyCode
  /\ focus' = 0
  /\ UNCHANGED <<currentScreen, profile, verificationCode, isVerifying, verificationError,
                 countdown, canResend, phoneError, isViaSocialAuth, isEmailVerified,
                 pendingVerify, pendingResend, pendingEmail, ticksOnVisit, calc, ticksSinceReset>>

\* a key of the code typed into the box holding the focus; maxLength={1} keeps a
\* full box as it is
TypeAtFocus ==
  /\ focus # NoFocus
  /\ verificationCode[focus] = <<>>
  /\ handleOTPChange(focus, <<CodeToType[focus + 1]>>)

\* Backspace pressed in the box holding the focus: onKeyDown, then the box is
\* cleared if it was full
BackspaceAtFocus ==
  /\ focus # NoFocus
  /\ IF verificationCode[focus] = <<>>
     THEN OTPKeyDown(focus, "Backspace")
     ELSE handleOTPChange(focus, <<>>)

\* The email path with the code typed from the keyboard alone: one click into
\* the first box, then keys and Backspace wherever the focus is.
NextFocus ==
  \/ LandingEmailInput
  \/ LandingContinue
  \/ RegistrationInput
  \/ PhoneInput
  \/ UseDifferentMethod
  \/ handleVerification
  \/ FocusFirstSlot
  \/ TypeAtFocus
  \/ BackspaceAtFocus
  \/ handleVerify
  \/ VerifyComplete
  \/ VerifyBack

SpecFocus == Init /\ [][NextFocus]_vars

-----------------------------------------------------------------------------
(* The variant of the component in src/src/App.tsx: the same state and the    *)
(* same handlers, except that there is no apple_signin screen, both social    *)
(* buttons of landing call handleSocialAuth, which leads to the registration  *)
(* form, and only the registration form edits the profile.                    *)

\* the identity the simulated provider returns in this variant
App_SocialAuthData == [email |-> "johndoe@icloud.com", firstName |-> "John", surname |-> "Doe"]

App_handleSocialAuth(provider) ==
  /\ currentScreen = "landing"
  /\ profile' = [profile EXCEPT !.email = App_SocialAuthData.email,
                                !.firstName = App_SocialAuthData.firstName,
                                !.surname = App_SocialAuthData.surname]
  /\ isEmailVerified' = TRUE
  /\ isViaSocialAuth' = TRUE
  /\ GoTo("registration_form")
  /\ UNCHANGED <<verificationCode, isVerifying, verificationError, countdown, canResend,
                 phoneError, pendingVerify, pendingResend, pendingEmail>>

App_SocialAuth == \E provider \in {"apple", "google"} : App_handleSocialAuth(provider)

App_BirthdayInput ==
  /\ currentScreen = "registration_form"
  /\ \E value \in BirthdayInputs : handleProfileChange("birthday", value)

\* the phone input exists on the registration form only
App_PhoneInput ==
  /\ currentScreen = "registration_form"
  /\ PhoneInput

\* the "retry" button exists on the success screen only
App_RetryEmail ==
  /\ currentScreen = "success"
  /\ handleEmailVerification

\* The variant with a user who leaves the optional designers field alone and
\* is done before the countdown's first tick.
NextApp ==
  \/ LandingEmailInput
  \/ LandingContinue
  \/ App_SocialAuth
  \/ RegistrationInput
  \/ App_BirthdayInput
  \/ App_PhoneInput
  \/ handleVerification
  \/ UseDifferentMethod
  \/ OTPTyping
  \/ handleVerify
  \/ VerifyComplete
  \/ VerifyBack
  \/ App_RetryEmail
  \/ EmailVerificationComplete

SpecApp == Init /\ [][NextApp]_vars

-----------------------------------------------------------------------------
(* The pure functions, each applied to an argument drawn from Strings *)

programState ==
  <<currentScreen, profile, verificationCode, isVerifying, verificationError, countdown,
    canResend, phoneError, isViaSocialAuth, isEmailVerified, pendingVerify,
    pendingResend, pendingEmail, ticksOnVisit, focus,
    ticksSinceReset>>

PureInit ==
  /\ currentScreen = "landing"
  /\ profile = EmptyProfile
  /\ verificationCode = EmptyCode
  /\ isVerifying = FALSE
  /\ verificationError = ""
  /\ countdown = CountdownStart
  /\ canResend = FALSE
  /\ phoneError = ""
  /\ isViaSocialAuth = FALSE
  /\ isEmailVerified = FALSE
  /\ pendingVerify = 0
  /\ pendingResend = 0
  /\ pendingEmail = 0
  /\ ticksOnVisit = 0
  /\ fnInput \in Strings
  /\ fnOutput = <<>>
  /\ focus = NoFocus
  /\ ticksSinceReset = 0

CallFormatPhoneNumber ==
  /\ fnOutput = <<>>
  /\ fnOutput' = <<"formatPhoneNumber", formatPhoneNumber(fnInput)>>
  /\ UNCHANGED <<fnInput, programState>>

\* the formatter applied to its own result, as when a formatted phone is edited
CallFormatPhoneNumberAgain ==
  /\ fnOutput # <<>>
  /\ fnOutput[1] = "formatPhoneNumber"
  /\ fnOutput' = <<"formatPhoneNumber twice", formatPhoneNumber(fnOutput[2]), fnOutput[2]>>
  /\ UNCHANGED <<fnInput, programState>>

CallValidateUAEPhone ==
  /\ fnOutput = <<>>
  /\ fnOutput' = <<"validateUAEPhone", validateUAEPhone(fnInput)>>
  /\ UNCHANGED <<fnInput, programState>>

PureNext ==
  \/ CallFormatPhoneNumber
  \/ CallFormatPhoneNumberAgain
  \/ CallValidateUAEPhone

PureSpec == PureInit /\ [][PureNext]_vars

-----------------------------------------------------------------------------
(* Properties *)

DigitsOf(s) == SelectSeq(s, LAMBDA c : c \in Digits)

\* the guard of the registration form's "continue", as the transition table states it
RegistrationGuard ==
  /\ profile.salutation # ""
  /\ profile.firstName # ""
  /\ profile.surname # ""
  /\ profile.phone # <<>>
  /\ Len(DigitsOf(profile.phone)) = 9
  /\ DigitsOf(profile.phone)[1] = "0"
  /\ DigitsOf(profile.phone)[2] = "5"

\* C1: on registration_form, "continue" leads to verify if and only if salutation,
\* firstName, surname and phone are non-empty and the phone has exactly 9 digits
\* starting with "05"; otherwise the screen stays registration_form.
C1_ContinueGuard ==
  /\ [][currentScreen = "registration_form" /\ currentScreen' = "verify"
          => RegistrationGuard]_vars
  /\ [](currentScreen = "registration_form" /\ RegistrationGuard
          => ENABLED (handleVerification /\ currentScreen' = "verify"))
  /\ [](currentScreen = "registration_form" /\ ~RegistrationGuard
          => ~ENABLED (handleVerification /\ currentScreen' # "registration_form"))

C1_Witness ==
  /\ currentScreen = "verify"
  /\ ticksOnVisit = 0
  /\ RegistrationGuard

\* C2: whenever the screen changes to verify, in the resulting state the
\* verification code is 6 empty slots, the countdown is 60 and canResend is false.
C2_EntryResetsVerifyState ==
  [][currentScreen # "verify" /\ currentScreen' = "verify"
       => /\ verificationCode' = EmptyCode
          /\ countdown' = 60
          /\ canResend' = FALSE]_vars

Edges ==
  { <<"landing", "registration_form">>, <<"landing", "apple_signin">>,
    <<"landing", "success">>, <<"apple_signin", "success">>,
    <<"apple_signin", "registration_form">>, <<"apple_signin", "landing">>,
    <<"registration_form", "verify">>, <<"registration_form", "landing">>,
    <<"verify", "success">>, <<"verify", "registration_form">> }

\* C3: every change of the current screen is an edge of the transition table; on
\* the email path (no social sign-in) the screen becomes success only from verify.
C3_OnlyTableEdges ==
  [][currentScreen' # currentScreen
       => /\ <<currentScreen, currentScreen'>> \in Edges
          /\ (currentScreen' = "success" /\ ~isViaSocialAuth'
                => currentScreen = "verify")]_vars

\* C4: a "verify" action with a joined code of length other than 6 sets the length
\* error, stays on verify, does not set isVerifying and schedules no completion;
\* a completion is only ever scheduled from verify with all 6 slots filled.
C4_ShortCodeRejected ==
  /\ [][handleVerify /\ Len(Join(verificationCode)) # 6
          => /\ verificationError' = OTPLengthError
             /\ currentScreen' = "verify"
             /\ isVerifying' = FALSE
             /\ pendingVerify' = pendingVerify]_vars
  /\ [][pendingVerify' > pendingVerify \/ (isVerifying' /\ ~isVerifying)
          => currentScreen = "verify" /\ Len(Join(verificationCode)) = 6]_vars
  /\ [](currentScreen = "verify" /\ ~isVerifying /\ Len(Join(verificationCode)) # 6
          => ENABLED (handleVerify /\ verificationError' = OTPLengthError))

C4_Witness ==
  /\ currentScreen = "verify"
  /\ verificationError = OTPLengthError
  /\ Len(Join(verificationCode)) # 6
  /\ ~isVerifying
  /\ pendingVerify = 0

\* C5: a "verify" action with all 6 slots filled is eventually followed by the
\* screen being success with isVerifying false, given that the pending timeout
\* fires; the failure branch (the "invalid code" error) is never taken.
C5_VerifyLeadsToSuccess ==
  /\ (isVerifying /\ pendingVerify > 0) ~> (currentScreen = "success" /\ ~isVerifying)
  /\ [](verificationError # OTPInvalidError)

C5_Witness ==
  /\ currentScreen = "success"
  /\ ~isViaSocialAuth
  /\ ~isVerifying
  /\ pendingVerify = 0
  /\ Len(Join(verificationCode)) = 6

\* C6: after the screen enters verify, the countdown is above 0 and resend is not
\* available while fewer than 60 ticks have occurred on this visit, and right
\* after the 60th tick the countdown is 0 and canResend is true.
C6_ResendAfterSixtyTicks ==
  /\ [](currentScreen = "verify" /\ ticksOnVisit < 60 => countdown > 0 /\ ~canResend)
  /\ [][currentScreen = "verify" /\ ticksOnVisit = 59 /\ ticksOnVisit' = 60
          => countdown' = 0 /\ canResend']_vars

\* C7: "resend" sets the countdown to 60 and canResend to false in the step that
\* starts the simulated call, and the completion of the call changes nothing else.
C7_ResendResetsImmediately ==
  /\ [][pendingResend' > pendingResend
          => countdown = 0 /\ countdown' = 60 /\ canResend' = FALSE]_vars
  /\ [][pendingResend' < pendingResend
          => UNCHANGED <<currentScreen, profile, verificationCode, isVerifying,
                         verificationError, countdown, canResend, phoneError,
                         isViaSocialAuth, isEmailVerified, pendingVerify,
                         pendingEmail>>]_vars

C7_Witness ==
  /\ currentScreen = "verify"
  /\ pendingResend > 0
  /\ countdown = 60
  /\ ~canResend
  /\ ticksOnVisit >= 60

\* C8: the countdown is always an integer in 0..60, and the timer's update of a
\* countdown of 0 is 0.
C8_CountdownRange ==
  /\ countdown \in 0..60
  /\ (countdown = 0 => CountdownUpdater(countdown) = 0)

C8_Witness ==
  /\ currentScreen = "verify"
  /\ countdown = 0
  /\ ticksOnVisit = 60

\* C9: no step taken while the current screen is not verify changes the countdown
\* or canResend.
C9_TimerOnlyOnVerify ==
  [][currentScreen # "verify" => UNCHANGED <<countdown, canResend>>]_vars

C9_Witness ==
  /\ currentScreen # "verify"
  /\ countdown > 0
  /\ countdown < 60

\* C10: the verification code always has exactly 6 slots of at most one character
\* each; an OTP input on slot i stores the first character of the input (or the
\* empty string) in slot i and leaves every other slot as it was.
C10_SlotsHoldOneChar ==
  /\ [](/\ DOMAIN verificationCode = 0..5
        /\ \A i \in DOMAIN verificationCode : Len(verificationCode[i]) <= 1)
  /\ [][\A index \in 0..5, value \in OTPInputs :
          handleOTPChange(index, value)
            => /\ verificationCode'[index] = Slice(value, 0, 1)
               /\ \A j \in 0..5 : j # index => verificationCode'[j] = verificationCode[j]]_vars

C10_Witness ==
  /\ currentScreen = "verify"
  /\ verificationCode[3] = <<"1">>
  /\ verificationCode[2] = <<>>
  /\ verificationCode[4] = <<>>

\* the first n characters of s
FirstN(s, n) == IF Len(s) <= n THEN s ELSE SubSeq(s, 1, n)

\* C18: for every input string, the digits of formatPhoneNumber's result, in
\* order, are the digits of the input, in order, cut to the first 9.
C18_FormatKeepsFirstNineDigits ==
  fnOutput # <<>> /\ fnOutput[1] = "formatPhoneNumber"
    => DigitsOf(fnOutput[2]) = FirstN(DigitsOf(fnInput), 9)

C18_Witness ==
  /\ fnOutput # <<>>
  /\ fnOutput[1] = "formatPhoneNumber"
  /\ Len(DigitsOf(fnInput)) = 10
  /\ Len(DigitsOf(fnOutput[2])) = 9

\* C19: formatPhoneNumber is idempotent: applied to its own result it returns
\* that result.
C19_FormatIdempotent ==
  fnOutput # <<>> /\ fnOutput[1] = "formatPhoneNumber twice"
    => fnOutput[2] = fnOutput[3]

C19_Witness ==
  /\ fnOutput # <<>>
  /\ fnOutput[1] = "formatPhoneNumber twice"
  /\ Len(fnOutput[3]) = 11
  /\ fnInput # fnOutput[3]

\* C20: validateUAEPhone is true exactly when its argument contains exactly 9
\* digits of which the first two are "0" and "5".
C20_ValidateExactlyNineFromZeroFive ==
  fnOutput # <<>> /\ fnOutput[1] = "validateUAEPhone"
    => (fnOutput[2] <=> /\ Len(DigitsOf(fnInput)) = 9
                        /\ DigitsOf(fnInput)[1] = "0"
                        /\ DigitsOf(fnInput)[2] = "5")

C20_Witness ==
  /\ fnOutput = <<"validateUAEPhone", TRUE>>
  /\ Len(fnInput) = 10

\* C11: every slot of the verification code holds a single decimal digit or the
\* empty string, so a "verify" action that passes the length guard submits a
\* 6-digit numeric code.
C11_SlotsHoldDigits ==
  /\ [](\A i \in 0..5 : \/ verificationCode[i] = <<>>
                        \/ /\ Len(verificationCode[i]) = 1
                           /\ verificationCode[i][1] \in Digits)
  /\ [][pendingVerify' > pendingVerify
          => /\ Len(Join(verificationCode)) = 6
             /\ \A k \in 1..6 : Join(verificationCode)[k] \in Digits]_vars

C11_Reached ==
  /\ currentScreen = "verify"
  /\ verificationCode[0] = <<"a">>

\* C12: a social sign-in (Google or Apple) moves the screen to success in the
\* step that signs the user in, so registration_form and verify are never
\* current between the sign-in and success.
C12_SocialAuthStraightToSuccess ==
  /\ [][isViaSocialAuth' /\ ~isViaSocialAuth => currentScreen' = "success"]_vars
  /\ [](isViaSocialAuth => currentScreen \notin {"registration_form", "verify"})

C12_Reached ==
  /\ isViaSocialAuth
  /\ currentScreen = "verify"

\* C13: a social sign-in is one atomic update: the step that sets viaSocialAuth
\* also sets emailVerified and writes the mock email, first name and surname, so
\* viaSocialAuth is never true with emailVerified false, and no step writes the
\* mock identity into the profile without emailVerified and viaSocialAuth.
C13_SocialAuthAtomic ==
  /\ [](isViaSocialAuth => isEmailVerified)
  /\ [][isViaSocialAuth' /\ ~isViaSocialAuth
          => /\ isEmailVerified'
             /\ profile'.email = MockSocialAuthData.email
             /\ profile'.firstName = MockSocialAuthData.firstName
             /\ profile'.surname = MockSocialAuthData.lastName]_vars
  /\ [][(/\ profile' # profile
         /\ profile'.email = MockSocialAuthData.email
         /\ profile'.firstName = MockSocialAuthData.firstName
         /\ profile'.surname = MockSocialAuthData.lastName)
          => (isEmailVerified' /\ isViaSocialAuth')]_vars

C13_Witness ==
  /\ currentScreen = "success"
  /\ isViaSocialAuth
  /\ isEmailVerified
  /\ pendingEmail = 0
  /\ profile.email = MockSocialAuthData.email

C15_ResetOnDifferentMethod ==
  /\ [][currentScreen = "registration_form" /\ currentScreen' = "landing"
          => /\ profile'.email = "" /\ profile'.salutation = ""
             /\ profile'.firstName = "" /\ profile'.surname = ""
             /\ profile'.phone = <<>> /\ profile'.birthday = ""
             /\ profile'.favoriteDesigners = ""
             /\ ~isViaSocialAuth']_vars
  /\ [](currentScreen = "registration_form"
          => ENABLED (UseDifferentMethod /\ currentScreen' = "landing"))

\* back on landing after a social sign-in and a phone typed on the form
C15_Witness ==
  /\ currentScreen = "landing"
  /\ profile = EmptyProfile
  /\ ~isViaSocialAuth
  /\ isEmailVerified
  /\ phoneError # ""

\* C16: from landing, "continue with email" moves the screen to
\* registration_form if and only if profile.email is non-empty; with an empty
\* email it changes no state.
C16_EmailRequired ==
  /\ [][currentScreen = "landing" /\ currentScreen' = "registration_form"
          => profile.email # ""]_vars
  /\ [](currentScreen = "landing" /\ profile.email # ""
          => ENABLED (LandingContinue /\ currentScreen' = "registration_form"))
  /\ [](currentScreen = "landing" /\ profile.email = ""
          => ~ENABLED (LandingContinue /\ vars' # vars))

C16_Witness ==
  /\ currentScreen = "registration_form"
  /\ profile.email # ""
  /\ profile.salutation = ""
  /\ profile.phone = <<>>

\* C17: profile.phone is always empty or formatted: at most 9 digits in groups
\* of 2, 3 and 4 separated by single spaces and nothing else, which is a fixed
\* point of formatPhoneNumber.
C17_PhoneStoredFormatted ==
  /\ Len(profile.phone) <= 11
  /\ Len(profile.phone) \notin {3, 7}
  /\ \A k \in 1..Len(profile.phone) :
       IF k \in {3, 7} THEN profile.phone[k] = " " ELSE profile.phone[k] \in Digits
  /\ profile.phone = formatPhoneNumber(profile.phone)

C17_Witness ==
  /\ Len(profile.phone) = 11
  /\ ~validateUAEPhone(profile.phone)

\* C21: every phone edit stores the formatted input and, in the same step, sets
\* phoneError to empty if the stored phone is empty or passes validateUAEPhone,
\* and to the invalid-UAE-mobile-number message otherwise.
C21_PhoneErrorRecomputed ==
  [][(\E value \in PhoneInputs : handlePhoneChange(value))
       => phoneError' = IF profile'.phone = <<>> \/ validateUAEPhone(profile'.phone)
                        THEN "" ELSE PhoneErrorMessage]_vars

\* an invalid phone was typed after a valid one
C21_Witness ==
  /\ currentScreen = "registration_form"
  /\ profile.phone # <<>>
  /\ ~validateUAEPhone(profile.phone)
  /\ phoneError = PhoneErrorMessage
  /\ profile.salutation # ""

\* C22: the email path is executable: email "a@b.com", Mr / A / B / phone
\* "052223344", code "123456" lead through landing, registration_form and verify
\* to success, where formatPhoneForDisplay(profile.phone) is "+971 05 222 3344";
\* in general a stored phone of 9 digits is displayed as "+971 " followed by the
\* digits grouped 2-3-4, which is the stored phone itself.
C22_DisplayedPhone ==
  /\ currentScreen \in {"verify", "success"} /\ Len(DigitsOf(profile.phone)) = 9
       => /\ formatPhoneForDisplay(profile.phone) = <<"+", "9", "7", "1", " ">> \o profile.phone
          /\ DigitsOf(formatPhoneForDisplay(profile.phone))
               = <<"9", "7", "1">> \o DigitsOf(profile.phone)
  /\ profile.phone = <<"0","5"," ","2","2","2"," ","3","3","4","4">>
       => formatPhoneForDisplay(profile.phone)
            = <<"+","9","7","1"," ","0","5"," ","2","2","2"," ","3","3","4","4">>

\* the end of the scenario
C22_Witness ==
  /\ currentScreen = "success"
  /\ ~isViaSocialAuth
  /\ profile.email = "a@b.com" /\ profile.salutation = "Mr"
  /\ profile.firstName = "A" /\ profile.surname = "B"
  /\ profile.phone = <<"0","5"," ","2","2","2"," ","3","3","4","4">>
  /\ Join(verificationCode) = CodeToType
  /\ formatPhoneForDisplay(profile.phone)
       = <<"+","9","7","1"," ","0","5"," ","2","2","2"," ","3","3","4","4">>

\* C23: the OTP error becomes non-empty only by a "verify" action taken on a
\* joined code of length other than 6, which sets the length message; every OTP
\* edit sets it back to empty; no other step changes it.
C23_LengthErrorSetAndCleared ==
  /\ [](verificationError \in {"", OTPLengthError})
  /\ [][verificationError' # verificationError /\ verificationError' # ""
          => /\ currentScreen = "verify"
             /\ Len(Join(verificationCode)) # 6
             /\ verificationError' = OTPLengthError
             /\ verificationCode' = verificationCode
             /\ currentScreen' = currentScreen]_vars
  /\ [][(\E index \in 0..(NumSlots - 1), value \in OTPInputs : handleOTPChange(index, value))
          => verificationError' = ""]_vars
  /\ [][verificationError' # verificationError /\ verificationError' = ""
          => \E index \in 0..(NumSlots - 1), value \in OTPInputs :
               handleOTPChange(index, value)]_vars

\* a half-typed code was submitted
C23_Witness ==
  /\ currentScreen = "verify"
  /\ verificationError = OTPLengthError
  /\ Cardinality(Filled(verificationCode)) = 3

\* C24: "retry email verification" is offered only while emailVerified is
\* false; once triggered, emailVerified eventually becomes true, given that the
\* pending timeout fires; neither the action nor its completion changes the
\* current screen or the profile.
C24_RetryEmailVerifies ==
  /\ [](ENABLED handleEmailVerification => ~isEmailVerified)
  /\ [][pendingEmail' > pendingEmail
          => /\ ~isEmailVerified
             /\ isEmailVerified' = isEmailVerified
             /\ currentScreen' = currentScreen
             /\ profile' = profile]_vars
  /\ [][pendingEmail' < pendingEmail
          => /\ isEmailVerified'
             /\ currentScreen' = currentScreen
             /\ profile' = profile]_vars
  /\ (pendingEmail > 0 ~> isEmailVerified)

\* the email was verified by a retry on the success screen
C24_Witness ==
  /\ currentScreen = "success"
  /\ ~isViaSocialAuth
  /\ isEmailVerified
  /\ pendingEmail = 0
  /\ profile.email # ""

\* C25: leaving verify by Edit or close does not cancel a pending OTP
\* submission: its completion stays due, and when it fires it sets the screen to
\* success and isVerifying to false whatever the current screen is; given that
\* the pending timeout fires, it does so.
C25_CompletionSurvivesNavigation ==
  /\ [][currentScreen = "verify" /\ currentScreen' = "registration_form"
          => pendingVerify' = pendingVerify /\ isVerifying' = isVerifying]_vars
  /\ [](pendingVerify > 0 => ENABLED VerifyComplete)
  /\ [][pendingVerify' < pendingVerify
          => currentScreen' = "success" /\ ~isVerifying']_vars
  /\ (pendingVerify > 0 /\ currentScreen # "verify"
        ~> currentScreen = "success" /\ ~isVerifying)

\* the completion fired after the user had left verify and reset the form
C25_Witness ==
  /\ currentScreen = "success"
  /\ ~isViaSocialAuth
  /\ profile.email = ""
  /\ ~isVerifying
  /\ pendingVerify = 0

\* C26: in every reachable state canResend is true if and only if the countdown
\* is 0, so the resend button, rendered when the countdown is 0, is available on
\* verify exactly when canResend is true.
C26_CanResendIffCountdownZero ==
  /\ canResend <=> (countdown = 0)
  /\ currentScreen = "verify" /\ pendingResend < MaxPending
       => (ENABLED handleResendCode <=> canResend)

\* the user left verify with the resend available, and came back
C26_Witness ==
  /\ currentScreen = "verify"
  /\ canResend
  /\ countdown = 0
  /\ ticksOnVisit = 0

\* C27: an OTP input of a non-empty character in slot i < 5 moves the focus to
\* slot i+1; an input in slot 5, or of the empty string, leaves the focus where
\* it is; Backspace on an empty slot i > 0 moves the focus to slot i-1. So keys
\* typed from slot 0 of an empty code fill the slots in order, and with all 6
\* slots filled the focus is on slot 5.
C27_FocusManagement ==
  /\ [][\A i \in 0..(NumSlots - 1) : \A value \in {<<>>, <<CodeToType[i + 1]>>} :
          focus = i /\ handleOTPChange(i, value)
            => focus' = IF value # <<>> /\ i < 5 THEN i + 1 ELSE focus]_vars
  /\ [][\A i \in 0..(NumSlots - 1) :
          focus = i /\ verificationCode[i] = <<>> /\ OTPKeyDown(i, "Backspace")
            => focus' = IF i > 0 THEN i - 1 ELSE focus]_vars
  /\ [](focus # NoFocus
          => /\ currentScreen = "verify"
             /\ Filled(verificationCode) \in {0..(focus - 1), 0..focus})
  /\ [](focus # NoFocus /\ Filled(verificationCode) = 0..(NumSlots - 1) => focus = 5)

\* the six digits typed in a row
C27_Witness ==
  /\ currentScreen = "verify"
  /\ Join(verificationCode) = CodeToType
  /\ focus = 5
  /\ ~isVerifying
  /\ verificationError = ""

\* C28: from verify, Edit and close are always possible and move the screen to
\* registration_form with no side effect: the profile, phoneError, emailVerified
\* and viaSocialAuth, and the OTP state too, are unchanged by the step.
C28_BackKeepsState ==
  /\ [][currentScreen = "verify" /\ currentScreen' # "verify"
          /\ pendingVerify' = pendingVerify
          => /\ currentScreen' = "registration_form"
             /\ profile' = profile
             /\ phoneError' = phoneError
             /\ isEmailVerified' = isEmailVerified
             /\ isViaSocialAuth' = isViaSocialAuth
             /\ verificationCode' = verificationCode
             /\ verificationError' = verificationError
             /\ countdown' = countdown /\ canResend' = canResend
             /\ isVerifying' = isVerifying]_vars
  /\ [](currentScreen = "verify"
          => ENABLED (VerifyBack /\ currentScreen' = "registration_form"))

\* back on the form from verify, with the profile that passed the guard
C28_Witness ==
  /\ currentScreen = "registration_form"
  /\ verificationCode # EmptyCode
  /\ validateUAEPhone(profile.phone)
  /\ profile.salutation # "" /\ profile.firstName # "" /\ profile.surname # ""
  /\ phoneError = ""
  /\ pendingVerify = 0

\* C29: a "continue" on registration_form whose guard fails (a required field
\* empty or the phone invalid) can be taken and changes no state: the screen,
\* the profile, phoneError, the verification code, the countdown and canResend
\* are as before.
C29_FailedContinueChangesNothing ==
  [](currentScreen = "registration_form" /\ ~RegistrationGuard
       => /\ ENABLED handleVerification
          /\ ~ENABLED (handleVerification /\ vars' # vars))

\* a form with an invalid phone, after a visit to verify
C29_Witness ==
  /\ currentScreen = "registration_form"
  /\ profile.salutation # "" /\ profile.firstName # "" /\ profile.surname # ""
  /\ profile.phone # <<>>
  /\ ~validateUAEPhone(profile.phone)
  /\ verificationCode # EmptyCode

\* C30: success is absorbing: once the current screen is success, no user
\* action, timer tick or completion of a pending asynchronous call changes it.
C30_SuccessAbsorbing ==
  [][currentScreen = "success" => currentScreen' = "success"]_vars

\* on success with a resend and an email verification still pending
C30_Witness ==
  /\ currentScreen = "success"
  /\ pendingResend > 0
  /\ pendingEmail > 0

\* C31: at most one OTP submission is pending at any time: isVerifying is true
\* exactly while a submission's completion is outstanding, on whatever screen;
\* while it is true the "verify" action is disabled; the completion sets it
\* back to false.
C31_OnePendingSubmission ==
  /\ [](pendingVerify <= 1)
  /\ [](isVerifying <=> pendingVerify > 0)
  /\ [](isVerifying => ~ENABLED handleVerify)
  /\ [][pendingVerify' < pendingVerify => isVerifying /\ ~isVerifying']_vars

\* back on verify with the submission of the previous visit still pending
C31_Witness ==
  /\ currentScreen = "verify"
  /\ isVerifying
  /\ pendingVerify = 1
  /\ Len(Join(verificationCode)) # 6

\* C32: resend requests cannot overlap by rapid clicking: a "resend" action
\* sets the countdown to 60 and is not available again until the countdown is
\* back at 0, so it is taken only when at least 60 timer ticks, all of them on
\* verify, have passed since the countdown was last set to 60.
C32_SixtyTicksBetweenResends ==
  /\ [][pendingResend' > pendingResend
          => /\ countdown = 0 /\ countdown' = CountdownStart
             /\ ticksSinceReset >= CountdownStart
             /\ ticksSinceReset' = 0]_vars
  /\ [](countdown > 0 => ~ENABLED handleResendCode)
  /\ [][ticksSinceReset' > ticksSinceReset => currentScreen = "verify"]_vars

\* right after a resend taken on a later visit than the one the countdown ran on
C32_Witness ==
  /\ currentScreen = "verify"
  /\ pendingResend > 0
  /\ countdown = CountdownStart
  /\ ticksSinceReset = 0
  /\ ticksOnVisit < CountdownStart

\* C33: emailVerified is true only for the email that was verified: while the
\* flag stands the email does not change, "use a different registration method"
\* clears the flag together with the email, and the completion of a triggered
\* verification never marks an empty email verified.
C33_VerifiedEmailProvenance ==
  /\ [](isEmailVerified => profile.email # "")
  /\ [][isEmailVerified /\ isEmailVerified' /\ ~(isViaSocialAuth' /\ ~isViaSocialAuth)
          => profile'.email = profile.email]_vars
  /\ [][currentScreen = "registration_form" /\ currentScreen' = "landing"
          => ~isEmailVerified']_vars
  /\ [][pendingEmail' < pendingEmail /\ isEmailVerified' => profile.email # ""]_vars

\* the flag outlived the email it was set for
C33_Reached ==
  /\ currentScreen = "landing"
  /\ isEmailVerified
  /\ profile.email = ""

\* C34: in every reachable state phoneError is non-empty if and only if
\* profile.phone is non-empty and fails validateUAEPhone, also after the reset
\* and after a social sign-in have cleared the phone.
C34_PhoneErrorConsistent ==
  (phoneError # "") <=> (profile.phone # <<>> /\ ~validateUAEPhone(profile.phone))

\* the error of a phone that the reset has cleared
C34_Reached ==
  /\ currentScreen = "registration_form"
  /\ profile.phone = <<>>
  /\ phoneError = PhoneErrorMessage

\* C35: whenever the current screen is verify, the profile satisfies the guard
\* of the registration form: salutation, firstName and surname are non-empty
\* and the phone passes validateUAEPhone; no step taken on verify changes the
\* profile.
C35_VerifyImpliesGuard ==
  /\ [](currentScreen = "verify"
          => /\ profile.salutation # "" /\ profile.firstName # ""
             /\ profile.surname # ""
             /\ validateUAEPhone(profile.phone))
  /\ [][currentScreen = "verify" => profile' = profile]_vars

\* on verify with an email verification pending and a second entry
C35_Witness ==
  /\ currentScreen = "verify"
  /\ validateUAEPhone(profile.phone)
  /\ pendingEmail > 0
  /\ verificationCode # EmptyCode
  /\ focus = NoFocus

\* C36: whenever the screen changes to success with isViaSocialAuth false, the
\* phone of the profile passes validateUAEPhone, and it is the phone for which
\* the code was submitted: the phone does not change while a submission is
\* pending.
C36_SuccessPhoneIsVerifiedPhone ==
  /\ [][currentScreen # "success" /\ currentScreen' = "success" /\ ~isViaSocialAuth'
          => validateUAEPhone(profile'.phone)]_vars
  /\ [][pendingVerify > 0 => profile'.phone = profile.phone]_vars

\* C37: every change of countdown is either a decrement by exactly 1 made by
\* a timer tick on verify, or a reset to 60 made by a resend; the countdown
\* has gone down by exactly the number of ticks since it was last set to 60,
\* so no tick decrements it twice.
C37_CountdownChanges ==
  /\ [][countdown' # countdown
          => \/ /\ currentScreen = "verify"
                /\ currentScreen' = "verify"
                /\ countdown' = countdown - 1
                /\ ticksSinceReset' = ticksSinceReset + 1
                /\ pendingResend' = pendingResend
             \/ /\ countdown' = CountdownStart
                /\ ticksSinceReset' = 0
                /\ pendingResend' = pendingResend + 1]_vars
  /\ [][ticksSinceReset' = ticksSinceReset + 1 => countdown' = countdown - 1]_vars
  /\ [](countdown + ticksSinceReset = CountdownStart)
  /\ [](countdown >= 0 /\ countdown <= CountdownStart)

\* the countdown ticking again after a resend, on a later visit of verify
C37_Witness ==
  /\ currentScreen = "verify"
  /\ countdown = CountdownStart - 2
  /\ ticksSinceReset = 2
  /\ ticksOnVisit > 2
  /\ pendingResend = 0
  /\ ~canResend

====
